---- MODULE Spec2Model ----
(***************************************************************************)
(* Model of src/app.py, the Streamlit editor of the year-indexed ID        *)
(* registry (id_management_file.csv).                                      *)
(*                                                                         *)
(* Text is a sequence of one-character strings and bytes are a sequence of *)
(* byte tokens (an ASCII byte is written as its character, any other byte  *)
(* as its two hex digits), so that split/join, the CSV tokenizer and the   *)
(* codecs are computed on characters as the code computes them.            *)
(*                                                                         *)
(* The table (pandas DataFrame) is a sequence of rows; the columns         *)
(* '年', '分配PID', '分配ID', '整備結果ID' are the record fields            *)
(* year, pid, id, rid.  Only files whose header has at least four columns  *)
(* are drawn as inputs (the branch of line 103 is not modelled).           *)
(***************************************************************************)
EXTENDS Integers, Sequences, FiniteSets, TLC

LF == "\n"
CR == "\r"
COMMA == ","
QUOTE == "\""
SPACE == " "

\* The one character of the model that Shift-JIS cannot represent (U+1F4CB),
\* and its UTF-8 byte sequence.
EMOJI == "U+1F4CB"
EMOJI_UTF8 == <<"F0", "9F", "93", "8B">>
BOM_UTF8 == <<"EF", "BB", "BF">>

\* Python's None where a text or bytes value is expected, and as error_info
None == <<"None">>
NoError == "None"

----------------------------------------------------------------------------
(* Python str helpers *)

\* the concatenation of seqs[lo], ..., seqs[hi]
RECURSIVE flatten(_, _, _)
flatten(seqs, lo, hi) ==
    IF lo > hi THEN <<>>
    ELSE IF lo = hi THEN seqs[lo]
    ELSE LET mid == (lo + hi) \div 2
         IN flatten(seqs, lo, mid) \o flatten(seqs, mid + 1, hi)

\* sep.join(parts)
join(parts, sep) ==
    flatten([k \in 1..Len(parts) |-> IF k = 1 THEN parts[k] ELSE <<sep>> \o parts[k]],
            1, Len(parts))

\* text.split(sep): count(sep) + 1 parts, the pieces between the separators
split(text, sep) ==
    LET at == {i \in 1..Len(text) : text[i] = sep}
        start(k) == IF k = 1 THEN 1
                    ELSE 1 + CHOOSE i \in at : Cardinality({h \in at : h <= i}) = k - 1
        stop(k) == IF k = Cardinality(at) + 1 THEN Len(text)
                   ELSE (CHOOSE i \in at : Cardinality({h \in at : h <= i}) = k) - 1
    IN [k \in 1..(Cardinality(at) + 1) |-> SubSeq(text, start(k), stop(k))]

\* s.strip()
RECURSIVE lstrip(_)
lstrip(s) == IF Len(s) > 0 /\ s[1] = SPACE THEN lstrip(Tail(s)) ELSE s

RECURSIVE rstrip(_)
rstrip(s) ==
    IF Len(s) > 0 /\ s[Len(s)] = SPACE THEN rstrip(SubSeq(s, 1, Len(s) - 1)) ELSE s

strip(s) == rstrip(lstrip(s))

----------------------------------------------------------------------------
(* Codecs *)

\* bytes.decode('shift_jis'): the ASCII bytes decode to themselves; 0xF0 and
\* 0xEF are not lead bytes of the codec, so it raises UnicodeDecodeError.
sjis_decodable(data) == \A i \in 1..Len(data) : data[i] \notin {"F0", "EF"}

\* bytes.decode('utf-8') of well-formed input: the four bytes of the emoji
\* become one character, an ASCII byte becomes its character
decode_utf8(data) ==
    LET starts(i) == i >= 1 /\ i + 3 <= Len(data) /\ SubSeq(data, i, i + 3) = EMOJI_UTF8
    IN flatten([i \in 1..Len(data) |->
                   IF starts(i) THEN <<EMOJI>>
                   ELSE IF starts(i - 1) \/ starts(i - 2) \/ starts(i - 3) THEN <<>>
                   ELSE <<data[i]>>], 1, Len(data))

\* lines 77-91 of load_csv_from_bytes
decode(data) == IF sjis_decodable(data) THEN data ELSE decode_utf8(data)

\* str.encode('shift_jis') raises UnicodeEncodeError on an unrepresentable
\* character
sjis_encodable(text) == \A i \in 1..Len(text) : text[i] # EMOJI

encode_utf8(text) ==
    flatten([i \in 1..Len(text) |-> IF text[i] = EMOJI THEN EMOJI_UTF8 ELSE <<text[i]>>],
            1, Len(text))

----------------------------------------------------------------------------
(* pandas.read_csv(StringIO(text), header=0, dtype=str,                    *)
(* keep_default_na=False): the C tokenizer with delimiter ',', quotechar   *)
(* '"', doublequote and skip_blank_lines, then the width check             *)

\* the tokenizer's state: the automaton state, the field and the record being
\* read, the records read
TokenizerInit == [state |-> "START_RECORD", field |-> <<>>, row |-> <<>>, rows |-> <<>>,
                  err |-> FALSE]

end_field(s, next) == [s EXCEPT !.state = next, !.field = <<>>, !.row = Append(s.row, s.field)]
end_line(s) == [s EXCEPT !.state = "START_RECORD", !.field = <<>>, !.row = <<>>,
                         !.rows = Append(s.rows, s.row)]
push_char(s, c, next) == [s EXCEPT !.state = next, !.field = Append(s.field, c)]

\* START_FIELD, also entered from START_RECORD on the first character of a record
start_field(s, c) ==
    IF c = LF THEN end_line(end_field(s, "START_RECORD"))
    ELSE IF c = CR THEN end_field(s, "EAT_CRNL")
    ELSE IF c = QUOTE THEN [s EXCEPT !.state = "IN_QUOTED_FIELD"]
    ELSE IF c = COMMA THEN end_field(s, "START_FIELD")
    ELSE push_char(s, c, "IN_FIELD")

\* START_RECORD: an empty line is skipped (skip_blank_lines)
start_record(s, c) ==
    IF c = LF THEN s
    ELSE IF c = CR THEN [s EXCEPT !.state = "EAT_CRNL_NOP"]
    ELSE start_field(s, c)

\* one character through tokenize_bytes
tokenize_char(s, c) ==
    CASE s.state = "START_RECORD" -> start_record(s, c)
      [] s.state = "START_FIELD" -> start_field(s, c)
      [] s.state = "IN_FIELD" ->
            IF c = LF THEN end_line(end_field(s, "START_RECORD"))
            ELSE IF c = CR THEN end_field(s, "EAT_CRNL")
            ELSE IF c = COMMA THEN end_field(s, "START_FIELD")
            ELSE push_char(s, c, "IN_FIELD")
      [] s.state = "IN_QUOTED_FIELD" ->
            IF c = QUOTE THEN [s EXCEPT !.state = "QUOTE_IN_QUOTED_FIELD"]
            ELSE push_char(s, c, "IN_QUOTED_FIELD")
      [] s.state = "QUOTE_IN_QUOTED_FIELD" ->
            IF c = QUOTE THEN push_char(s, c, "IN_QUOTED_FIELD")
            ELSE IF c = COMMA THEN end_field(s, "START_FIELD")
            ELSE IF c = LF THEN end_line(end_field(s, "START_RECORD"))
            ELSE IF c = CR THEN end_field(s, "EAT_CRNL")
            ELSE push_char(s, c, "IN_FIELD")
      [] s.state = "EAT_CRNL" ->
            IF c = LF THEN end_line(s)
            ELSE IF c = COMMA THEN end_field(end_line(s), "START_FIELD")
            ELSE start_record(end_line(s), c)
      [] OTHER -> \* EAT_CRNL_NOP
            IF c = LF THEN [s EXCEPT !.state = "START_RECORD"]
            ELSE start_record([s EXCEPT !.state = "START_RECORD"], c)

\* the characters t[lo..hi] from state s
RECURSIVE tokenize_range(_, _, _, _)
tokenize_range(t, lo, hi, s) ==
    IF s.err \/ lo > hi THEN s
    ELSE IF lo = hi THEN tokenize_char(s, t[lo])
    ELSE LET mid == (lo + hi) \div 2
         IN tokenize_range(t, mid + 1, hi, tokenize_range(t, lo, mid, s))

\* the end of the input: the open field and record are closed; the input
\* ending inside a quoted field is the error "EOF inside string"
handle_eof(s) ==
    CASE s.state = "IN_QUOTED_FIELD" -> [s EXCEPT !.err = TRUE]
      [] s.state \in {"START_FIELD", "IN_FIELD", "QUOTE_IN_QUOTED_FIELD"} ->
            end_line(end_field(s, "START_RECORD"))
      [] s.state = "EAT_CRNL" -> end_line(s)
      [] OTHER -> s

tokenize(t) == handle_eof(tokenize_range(t, 1, Len(t), TokenizerInit))

\* a record shorter than the header is padded with empty fields
pad(fields, n) == [k \in 1..n |-> IF k <= Len(fields) THEN fields[k] ELSE <<>>]

\* result of read_csv: "ok" with the header and the data records padded to the
\* header's width, or the exception raised.  A data record after the first
\* with more fields than expected raises ParserError.
read_csv(text) ==
    LET tk == tokenize(text) IN
    IF tk.err THEN [kind |-> "ParserError"]
    ELSE IF Len(tk.rows) = 0 THEN [kind |-> "EmptyDataError"]
    ELSE LET header == tk.rows[1]
             w == Len(header)
             data == Tail(tk.rows)
         IN IF \E j \in 1..Len(data) : Len(data[j]) > w
            THEN [kind |-> "ParserError"]
            ELSE [kind |-> "ok", columns |-> header,
                  data |-> [j \in 1..Len(data) |-> pad(data[j], w)]]

----------------------------------------------------------------------------
(* load_csv_from_bytes *)

Row(y, p, i, r) == [year |-> y, pid |-> p, id |-> i, rid |-> r]

\* lines 96-102: the first four columns by position
df_display(data) ==
    [j \in 1..Len(data) |-> Row(data[j][1], data[j][2], data[j][3], data[j][4])]

\* returns (df_display, error_info, text_data)
load_csv_from_bytes(data) ==
    LET text_data == decode(data)
        parsed == read_csv(text_data)
    IN IF parsed.kind = "ok"
       THEN [df |-> df_display(parsed.data), error_info |-> NoError, text |-> text_data]
       ELSE [df |-> <<>>, error_info |-> parsed.kind, text |-> None]

----------------------------------------------------------------------------
(* The table shown in the editor *)

NAN == <<"n", "a", "n">>

\* .astype(str).replace('nan', '') on one cell
nan_to_empty(v) == IF v = NAN THEN <<>> ELSE v

\* lines 383-388: the three ID columns of the editor's result
normalize_ids(table) ==
    [j \in 1..Len(table) |->
        Row(table[j].year, nan_to_empty(table[j].pid),
            nan_to_empty(table[j].id), nan_to_empty(table[j].rid))]

\* st.data_editor(df, num_rows="fixed", ...): the widget keeps the user's cell
\* edits as <<row, column, value>> (column 1, 2, 3 = 分配PID, 分配ID,
\* 整備結果ID; the year column is disabled) and applies them to the df passed in
edit_of(eds, j, col, old) ==
    IF \E e \in eds : e[1] = j /\ e[2] = col
    THEN (CHOOSE e \in eds : e[1] = j /\ e[2] = col)[3]
    ELSE old

data_editor(table, eds) ==
    normalize_ids([j \in 1..Len(table) |->
        Row(table[j].year, edit_of(eds, j, 1, table[j].pid),
            edit_of(eds, j, 2, table[j].id), edit_of(eds, j, 3, table[j].rid))])

----------------------------------------------------------------------------
(* Patch of the original text, lines 172-186 and 423-437 *)

\* one pass of the loop body for row j (0-based index j - 1) on the list lines
patch_line(lines, j, row) ==
    IF j + 1 <= Len(lines)                        \* i + 1 < len(lines)
    THEN LET values == split(lines[j + 1], COMMA) IN
         IF Len(values) >= 4
         THEN [lines EXCEPT ![j + 1] =
                  join([k \in 1..Len(values) |->
                           CASE k = 2 -> nan_to_empty(row.pid)
                             [] k = 3 -> nan_to_empty(row.id)
                             [] k = 4 -> nan_to_empty(row.rid)
                             [] OTHER -> values[k]], COMMA)]
         ELSE lines
    ELSE lines

RECURSIVE patch_rows(_, _, _)
patch_rows(lines, table, j) ==
    IF j > Len(table) THEN lines
    ELSE patch_rows(patch_line(lines, j, table[j]), table, j + 1)

patch_text(original_text, table) ==
    join(patch_rows(split(original_text, LF), table, 1), LF)

\* DataFrame.to_csv(index=False) of the four columns: QUOTE_MINIMAL, '\n'
needs_quote(v) == \E k \in 1..Len(v) : v[k] \in {COMMA, QUOTE, LF, CR}

double_quotes(v) ==
    flatten([k \in 1..Len(v) |-> IF v[k] = QUOTE THEN <<QUOTE, QUOTE>> ELSE <<v[k]>>],
            1, Len(v))

csv_field(v) == IF needs_quote(v) THEN <<QUOTE>> \o double_quotes(v) \o <<QUOTE>> ELSE v

RECURSIVE to_csv_rows(_)
to_csv_rows(table) ==
    IF Len(table) = 0 THEN <<>>
    ELSE join(<<csv_field(table[1].year), csv_field(table[1].pid),
                csv_field(table[1].id), csv_field(table[1].rid)>>, COMMA)
         \o <<LF>> \o to_csv_rows(Tail(table))

to_csv(table) ==
    <<"COL_YEAR", COMMA, "COL_PID", COMMA, "COL_ID", COMMA, "COL_RID", LF>>
    \o to_csv_rows(table)

\* "if csv_text_content:" is false for None and for the empty string
truthy(text) == text # None /\ text # <<>>

\* lines 423-447: the text offered for download
csv_content_of(original_text, table) ==
    IF truthy(original_text) THEN patch_text(original_text, table)
    ELSE to_csv(normalize_ids(table))

\* lines 449-452: Shift-JIS, else UTF-8 behind a byte-order mark
download_encode(text) ==
    IF sjis_encodable(text) THEN text ELSE BOM_UTF8 \o encode_utf8(text)

----------------------------------------------------------------------------
(* Add-year, lines 316-357 *)

Digits == <<"0", "1", "2", "3", "4", "5", "6", "7", "8", "9">>
is_digit(c) == \E d \in 1..10 : Digits[d] = c
digit_val(c) == (CHOOSE d \in 1..10 : Digits[d] = c) - 1

\* .str.extract('(\d+)')[0].astype(float): the value of the first run of
\* digits, NaN when the year has no digit
NaN == -1

RECURSIVE digits_value(_, _, _)
digits_value(s, i, acc) ==
    IF i <= Len(s) /\ is_digit(s[i]) THEN digits_value(s, i + 1, acc * 10 + digit_val(s[i]))
    ELSE acc

RECURSIVE year_key_from(_, _)
year_key_from(s, i) ==
    IF i > Len(s) THEN NaN
    ELSE IF is_digit(s[i]) THEN digits_value(s, i, 0)
    ELSE year_key_from(s, i + 1)

year_key(s) == year_key_from(s, 1)

years_of(table) == {table[j].year : j \in 1..Len(table)}

Permutations_of(n) == {p \in [1..n -> 1..n] : \A a, b \in 1..n : a # b => p[a] # p[b]}

\* df.sort_values('年_数値', na_position='last') with the default
\* kind='quicksort', then reset_index: the rows with a key come first in
\* non-decreasing key order, the rows without a key follow in their previous
\* order.  pandas documents quicksort as not stable ("mergesort and stable
\* are the only stable algorithms"), so the order among equal keys is any.
sort_values(table) ==
    {[j \in 1..Len(table) |-> table[p[j]]] : p \in
        {q \in Permutations_of(Len(table)) :
            \A a, b \in 1..Len(table) : a < b =>
                LET ka == year_key(table[q[a]].year)
                    kb == year_key(table[q[b]].year)
                IN /\ ka = NaN => (kb = NaN /\ q[a] < q[b])
                   /\ (ka # NaN /\ kb # NaN) => ka <= kb}}

\* add_year without the test of line 322
add_year_without_duplicate_test(table, new_year) ==
    IF new_year = <<>> \/ strip(new_year) = <<>>
    THEN [outcome |-> "EmptyYear", tables |-> {table}]
    ELSE [outcome |-> "Added",
          tables |-> {normalize_ids(t) :
                        t \in sort_values(Append(table, Row(strip(new_year), <<>>, <<>>, <<>>)))}]

\* the handler of the add-year button on the table df with the text input
\* new_year: the outcome and the set of tables it may store
add_year(table, new_year) ==
    IF new_year = <<>> \/ strip(new_year) = <<>>
    THEN [outcome |-> "EmptyYear", tables |-> {table}]
    ELSE IF strip(new_year) \in years_of(table)
    THEN [outcome |-> "DuplicateYear", tables |-> {table}]
    ELSE [outcome |-> "Added",
          tables |-> {normalize_ids(t) :
                        t \in sort_values(Append(table, Row(strip(new_year), <<>>, <<>>, <<>>)))}]

----------------------------------------------------------------------------
(* Inputs: the files a user may upload or Dropbox may hold *)

\* data lines of a file, rows of a table (no year is added beyond it), and
\* cells holding a value typed by the user
MaxLines == 2
MaxRows == 3
MaxEdits == 1

FileYears == <<<<"2", "0">>, <<"R", "3">>, <<"2", "1">>, <<"2", "2">>>>
LineDigit == <<"1", "2", "3", "4">>

Variants == {"plain", "crlf", "blank", "quoted", "short", "nofinal", "emoji",
             "unterminated", "long"}

\* the field list of data line j of a file with w columns
line_fields(j, w, variant, k) ==
    LET pid == CASE variant = "quoted" -> <<QUOTE, "A", COMMA, LineDigit[j], QUOTE>>
                 [] variant = "emoji" -> <<"A">> \o EMOJI_UTF8
                 [] variant = "unterminated" /\ j = k -> <<QUOTE, "A", LineDigit[j]>>
                 [] OTHER -> <<"A", LineDigit[j]>>
        four == <<FileYears[j], pid, <<"B", LineDigit[j]>>, <<"C", LineDigit[j]>>>>
        full == IF w = 5 THEN Append(four, <<"z", LineDigit[j]>>) ELSE four
    IN CASE variant = "short" /\ j = k -> SubSeq(full, 1, 2)
         [] variant = "long" /\ j = k /\ j > 1 -> Append(full, <<"q">>)
         [] OTHER -> full

header_fields(w) ==
    IF w = 5 THEN <<<<"y">>, <<"p">>, <<"i">>, <<"r">>, <<"x">>>>
    ELSE <<<<"y">>, <<"p">>, <<"i">>, <<"r">>>>

concat_lines(ls, eol) == flatten([k \in 1..Len(ls) |-> ls[k] \o eol], 1, Len(ls))

\* the bytes of the file with a w-column header and k data lines
make_file(w, k, variant) ==
    LET eol == IF variant = "crlf" THEN <<CR, LF>> ELSE <<LF>>
        head == <<join(header_fields(w), COMMA)>> \o (IF variant = "blank" THEN <<<<>>>> ELSE <<>>)
        body == [j \in 1..k |-> join(line_fields(j, w, variant, k), COMMA)]
        all == concat_lines(head \o body, eol)
    IN IF variant = "nofinal" THEN SubSeq(all, 1, Len(all) - 1) ELSE all

\* four-column files of 0..MaxLines plain lines, five-column files with LF and
\* with CRLF, the variants on MaxLines lines, and the file of zero bytes
Files ==
    {make_file(4, k, "plain") : k \in 0..MaxLines}
    \cup {make_file(5, MaxLines, v) : v \in {"plain", "crlf"}}
    \cup {make_file(4, MaxLines, v) : v \in Variants}
    \cup {<<>>}

\* what dbx.files_download(DROPBOX_FILE_PATH) may return: Dropbox is outside
\* the session, the file may be missing or hold any content
NotFound == <<"NotFound">>
RemoteContents == {NotFound, make_file(4, MaxLines, "plain")}

YearInputs == {<<SPACE, "2", "0">>, <<"H", "3">>, <<"a", "b">>, <<SPACE>>}
EditValues == {<<"Z">>}
\* the cells the user edits: <<row, ID column>>
EditCells == {<<1, 1>>, <<2, 3>>}

----------------------------------------------------------------------------
(* State *)

VARIABLES
    uploaded_file,      \* st.file_uploader(key="csv_uploader"): None or the bytes
    use_dropbox,        \* the checkbox of line 235
    session_df,         \* st.session_state.df
    session_text,       \* st.session_state.csv_text_content
    edits,              \* the cell edits held by the widget "data_editor"
    new_year,           \* the text input "new_year_input" of the run
    pc,                 \* position: idle (waiting for the user), body (at line
                        \* 316 with the add-year button pressed), render (at
                        \* line 359), rerun (st.rerun() called), upload (in
                        \* dbx.files_upload)
    df,                 \* the script's local df
    csv_text_content,   \* the script's local csv_text_content
    error_info,         \* the script's local error_info
    editor_df,          \* the table last passed to st.data_editor
    edited_df,          \* the table returned by st.data_editor
    csv_content,        \* the text built for the download
    csv_bytes,          \* the bytes given to st.download_button
    shown,              \* the branch rendered by the last complete run
    message,            \* the notice raised by the step just taken
    upload_bytes,       \* the bytes handed to dbx.files_upload
    save_result         \* how the save_csv_to_dropbox call just made ended

vars == <<uploaded_file, use_dropbox, session_df, session_text, edits, new_year,
          pc, df, csv_text_content, error_info, editor_df, edited_df, csv_content,
          csv_bytes,
shown, message, upload_bytes, save_result>>

source_vars == <<uploaded_file, use_dropbox>>
session_vars == <<session_df, session_text>>
local_vars == <<df, csv_text_content, error_info>>
output_vars == <<editor_df, edited_df, csv_content, csv_bytes, shown>>

Init ==
    /\ uploaded_file = None
    /\ use_dropbox = FALSE
    /\ session_df = <<>>
    /\ session_text = None
    /\ edits = {}
    /\ new_year = <<>>
    /\ pc = "rerun"
    /\ df = <<>>
    /\ csv_text_content = None
    /\ error_info = NoError
    /\ editor_df = <<>>
    /\ edited_df = <<>>
    /\ csv_content = None
    /\ csv_bytes = None
    /\ shown = "none"
    /\ message = "none"
    /\ upload_bytes = None
    /\ save_result = "none"

----------------------------------------------------------------------------
(* The script run, lines 211-460 *)

\* load_csv_from_dropbox: an ApiError of files_download gives an empty table
\* and a message
load_csv_from_dropbox(content) ==
    IF content = NotFound
    THEN [df |-> <<>>, error_info |-> "ApiError", text |-> None]
    ELSE load_csv_from_bytes(content)

\* lines 219-243: what the run may load with the uploader holding up and the
\* checkbox at usedb: (df, error_info, csv_text_content)
load_results(up, usedb) ==
    IF up # None THEN {load_csv_from_bytes(up)}
    ELSE IF usedb THEN {load_csv_from_dropbox(c) : c \in RemoteContents}
    ELSE {[df |-> session_df, error_info |-> NoError, text |-> session_text]}

\* lines 227-232 and 239-243: a load without error and with rows is stored
stored(up, usedb, r) == (up # None \/ usedb) /\ r.error_info = NoError /\ r.df # <<>>

\* lines 214-243
LoadFlow(up, usedb, r) ==
    /\ r \in load_results(up, usedb)
    /\ df' = r.df
    /\ error_info' = r.error_info
    /\ csv_text_content' = r.text
    /\ session_df' = IF stored(up, usedb, r) THEN r.df ELSE session_df
    /\ session_text' = IF stored(up, usedb, r) THEN r.text ELSE session_text

\* lines 245-303: no table; the widgets of the editor branch are not rendered
\* and lose their state
RenderExplore ==
    /\ shown' = "explore"
    /\ message' = "LoadFailed"
    /\ edits' = {}
    /\ new_year' = <<>>
    /\ editor_df' = <<>>
    /\ edited_df' = <<>>
    /\ csv_content' = None
    /\ csv_bytes' = None
    /\ pc' = "idle"

\* the edits the widget "data_editor" applies when it is passed table: those
\* it holds when the table is the one it was passed before; for another table
\* Streamlit keeps them or starts the widget anew, depending on its version
widget_edits(table, eds) == IF table = editor_df THEN {eds} ELSE {eds, {}}

\* lines 359-388 and 422-460: the editor on table with the edits eds, and the
\* download button
RenderEditor(table, text, eds) ==
    /\ edits' \in widget_edits(table, eds)
    /\ editor_df' = table
    /\ edited_df' = data_editor(table, edits')
    /\ csv_content' = csv_content_of(text, edited_df')
    /\ csv_bytes' = download_encode(csv_content')
    /\ shown' = "editor"
    /\ message' = "none"
    /\ new_year' = <<>>
    /\ pc' = "idle"

\* a run in which no button is pressed
PlainRun(up, usedb, eds) ==
    /\ uploaded_file' = up
    /\ use_dropbox' = usedb
    /\ \E r \in load_results(up, usedb) :
        /\ LoadFlow(up, usedb, r)
        /\ IF r.df = <<>> THEN RenderExplore ELSE RenderEditor(r.df, r.text, eds)
    /\ upload_bytes' = None
    /\ save_result' = "none"

\* the run started by st.rerun(), and the first run of the session
Rerun ==
    /\ pc = "rerun"
    /\ PlainRun(uploaded_file, use_dropbox, edits)

\* the user picks a file in the uploader; the checkbox is not rendered
UploadFile(f) ==
    /\ pc = "idle"
    /\ uploaded_file = None
    /\ PlainRun(f, FALSE, edits)

\* the user removes the file from the uploader
RemoveFile ==
    /\ pc = "idle"
    /\ uploaded_file # None
    /\ PlainRun(None, use_dropbox, edits)

\* the user ticks or clears "Dropboxから読み込む"
ToggleDropbox ==
    /\ pc = "idle"
    /\ uploaded_file = None
    /\ PlainRun(None, ~use_dropbox, edits)

\* number of cells of the table that hold a value typed by the user
edited_cells(table) ==
    Cardinality({<<j, col>> \in (1..Len(table)) \X (1..3) :
        (CASE col = 1 -> table[j].pid [] col = 2 -> table[j].id [] OTHER -> table[j].rid)
            \in EditValues})

\* the user types v into column col of row j of the editor
EditCell(j, col, v) ==
    /\ pc = "idle"
    /\ shown = "editor"
    /\ j \in 1..Len(edited_df)
    /\ LET eds == {e \in edits : ~(e[1] = j /\ e[2] = col)} \cup {<<j, col, v>>} IN
       /\ eds # edits
       /\ Cardinality(eds) <= MaxEdits
       /\ edited_cells(data_editor(df, eds)) <= MaxEdits
       /\ PlainRun(uploaded_file, use_dropbox, eds)

\* the user types y and presses "年度を追加": the run reaches line 316
ClickAddYear(y) ==
    /\ pc = "idle"
    /\ shown = "editor"
    /\ Len(edited_df) < MaxRows
    /\ \E r \in load_results(uploaded_file, use_dropbox) :
        /\ LoadFlow(uploaded_file, use_dropbox, r)
        /\ IF r.df = <<>> THEN RenderExplore
           ELSE /\ new_year' = y
                /\ message' = "none"
                /\ pc' = "body"
                /\ UNCHANGED <<edits, output_vars>>
    /\ upload_bytes' = None
    /\ save_result' = "none"
    /\ UNCHANGED source_vars

\* lines 316-357: the handler of the add-year button
AddYearButton ==
    /\ pc = "body"
    /\ LET r == add_year(df, new_year) IN
       /\ message' = r.outcome
       /\ IF r.outcome = "Added"
          THEN /\ \E t \in r.tables : df' = t /\ session_df' = t
               /\ pc' = "rerun"                   \* st.rerun()
          ELSE /\ UNCHANGED <<df, session_df>>
               /\ pc' = "render"
    /\ UNCHANGED <<source_vars, session_text, edits, new_year, csv_text_content,
                   error_info, output_vars, upload_bytes, save_result>>

\* the rest of a run whose add-year handler did not rerun
RenderAfterAddYear ==
    /\ pc = "render"
    /\ RenderEditor(df, csv_text_content, edits)
    /\ UNCHANGED <<source_vars, session_vars, local_vars, upload_bytes, save_result>>

\* lines 400-406: "リセット"; both keys are deleted, and lines 214-217 of the
\* rerun create them again as the empty DataFrame and None
ClickReset ==
    /\ pc = "idle"
    /\ shown = "editor"
    /\ \E r \in load_results(uploaded_file, use_dropbox) :
        IF r.df = <<>>
        THEN LoadFlow(uploaded_file, use_dropbox, r) /\ RenderExplore
        ELSE /\ df' = r.df
             /\ error_info' = r.error_info
             /\ csv_text_content' = r.text
             /\ session_df' = <<>>
             /\ session_text' = None
             /\ message' = "none"
             /\ pc' = "rerun"
             /\ UNCHANGED <<edits, new_year, output_vars>>
    /\ upload_bytes' = None
    /\ save_result' = "none"
    /\ UNCHANGED source_vars

\* lines 409-420: "変更を保存"
ClickSave ==
    /\ pc = "idle"
    /\ shown = "editor"
    /\ \E r \in load_results(uploaded_file, use_dropbox) :
        IF r.df = <<>>
        THEN LoadFlow(uploaded_file, use_dropbox, r) /\ RenderExplore
        ELSE /\ df' = normalize_ids(data_editor(r.df, edits))
             /\ error_info' = r.error_info
             /\ csv_text_content' = r.text
             /\ session_df' = df'
             /\ session_text' = IF stored(uploaded_file, use_dropbox, r)
                                THEN r.text ELSE session_text
             /\ message' = "Saved"
             /\ pc' = "rerun"
             /\ UNCHANGED <<edits, new_year, output_vars>>
    /\ upload_bytes' = None
    /\ save_result' = "none"
    /\ UNCHANGED source_vars

----------------------------------------------------------------------------
(* save_csv_to_dropbox(df, path, original_text), lines 169-203, on the     *)
(* session's table and text                                                *)

\* lines 172-197: the text to encode
save_csv_content(table, original_text) ==
    IF truthy(original_text) THEN patch_text(original_text, table)
    ELSE to_csv(normalize_ids(table))

\* lines 187 and 197: encode('shift_jis'); a UnicodeEncodeError is not caught
SaveToDropbox ==
    /\ pc = "idle"
    /\ shown = "editor"
    /\ LET content == save_csv_content(session_df, session_text) IN
       IF sjis_encodable(content)
       THEN /\ upload_bytes' = content
            /\ save_result' = "none"
            /\ pc' = "upload"
       ELSE /\ upload_bytes' = None
            /\ save_result' = "UnicodeEncodeError"
            /\ pc' = "idle"
    /\ message' = "none"
    /\ UNCHANGED <<source_vars, session_vars, edits, new_year, local_vars, output_vars>>

\* lines 199-200: dbx.files_upload succeeds
FilesUploadOk ==
    /\ pc = "upload"
    /\ save_result' = "ok"
    /\ message' = "SavedToDropbox"
    /\ pc' = "idle"
    /\ UNCHANGED <<source_vars, session_vars, edits, new_year, local_vars, output_vars,
                   upload_bytes>>

\* a handler of the ApiError that drops the session's table and text
FilesUploadApiError_dropping_session ==
    /\ pc = "upload"
    /\ save_result' = "ApiError"
    /\ message' = "SaveError"
    /\ pc' = "idle"
    /\ session_df' = <<>>
    /\ session_text' = None
    /\ UNCHANGED <<source_vars, edits, new_year, local_vars, output_vars, upload_bytes>>

\* lines 201-203: the ApiError is shown and raised again
FilesUploadApiError ==
    /\ pc = "upload"
    /\ save_result' = "ApiError"
    /\ message' = "SaveError"
    /\ pc' = "idle"
    /\ UNCHANGED <<source_vars, session_vars, edits, new_year, local_vars, output_vars,
                   upload_bytes>>

Next ==
    \/ Rerun
    \/ \E f \in Files : UploadFile(f)
    \/ RemoveFile
    \/ ToggleDropbox
    \/ \E c \in EditCells, v \in EditValues : EditCell(c[1], c[2], v)
    \/ \E y \in YearInputs : ClickAddYear(y)
    \/ AddYearButton
    \/ RenderAfterAddYear
    \/ ClickReset
    \/ ClickSave
    \/ SaveToDropbox
    \/ FilesUploadOk
    \/ FilesUploadApiError

Spec == Init /\ [][Next]_vars

----------------------------------------------------------------------------
(* Properties *)

\* C5: when "年度を追加" is pressed with a year that, stripped, is already one
\* of the table's years, the handler reports the duplicate and the session's
\* table (rows and order), the session's original text and the run's table
\* are after the handler what they were before it.
C5_DuplicateYearChangesNothing ==
    [][(pc = "body" /\ strip(new_year) # <<>> /\ strip(new_year) \in years_of(df))
        => /\ message' = "DuplicateYear"
           /\ session_df' = session_df
           /\ session_text' = session_text
           /\ df' = df]_vars

\* a duplicate year was refused on a table of at least two rows
C5_Witness ==
    /\ message = "DuplicateYear"
    /\ Len(session_df) >= 2
    /\ strip(new_year) \in years_of(session_df)

\* C8: a save_csv_to_dropbox call whose files_upload raises ApiError shows
\* the error, and the session's table and original text are, from the start
\* of the call to its end, what they were before it.
C8_FailedSaveLeavesSession ==
    [][/\ (pc' = "upload" \/ pc = "upload") =>
            (session_df' = session_df /\ session_text' = session_text)
       /\ (pc = "upload" /\ save_result' = "ApiError") => message' = "SaveError"]_vars

\* a save of a table with rows failed in files_upload
C8_Witness ==
    /\ save_result = "ApiError"
    /\ message = "SaveError"
    /\ session_df # <<>>
    /\ upload_bytes # None

\* C1: round trip.  Whenever the editor shows the table parsed from an
\* original text, with no edit made, the text built from the patch is the
\* original text exactly: same lines, same fields in every line, unmanaged
\* columns, quoted fields, blank lines and the carriage return of a CRLF line
\* included.
C1_RoundTrip ==
    (/\ pc = "idle"
     /\ shown = "editor"
     /\ truthy(csv_text_content)
     /\ read_csv(csv_text_content).kind = "ok"
     /\ edited_df = df_display(read_csv(csv_text_content).data))
    => csv_content = csv_text_content

\* C2: frame of the patch.  Whenever the edited table has as many rows as the
\* original text has lines after its header, the text built has the same
\* number of lines and the same header line, and in data line i every
\* position other than 1, 2, 3 is the original's, the line ends with a
\* carriage return exactly when the original line does, and positions 1, 2, 3
\* are row i's 分配PID, 分配ID and 整備結果ID (a position the line does not
\* have reads as the empty string).
C2_PatchFrame ==
    (pc = "idle" /\ shown = "editor" /\ truthy(csv_text_content)) =>
        LET old == split(csv_text_content, LF)
            new == split(csv_content, LF)
            last == IF old[Len(old)] = <<>> THEN Len(old) - 1 ELSE Len(old)
            ends_cr(l) == l # <<>> /\ l[Len(l)] = CR
            no_cr(l) == IF ends_cr(l) THEN SubSeq(l, 1, Len(l) - 1) ELSE l
        IN  Len(edited_df) = last - 1 =>
                /\ Len(new) = Len(old)
                /\ new[1] = old[1]
                /\ \A i \in 1..Len(edited_df) :
                    LET o == split(old[i + 1], COMMA)
                        n == split(new[i + 1], COMMA)
                        at(k) == IF k > Len(n) THEN <<>>
                                 ELSE IF k = Len(n) THEN no_cr(n[k]) ELSE n[k]
                    IN  /\ Len(n) = Len(o)
                        /\ \A k \in 1..Len(o) : k \notin {2, 3, 4} => n[k] = o[k]
                        /\ ends_cr(new[i + 1]) <=> ends_cr(old[i + 1])
                        /\ at(2) = edited_df[i].pid
                        /\ at(3) = edited_df[i].id
                        /\ at(4) = edited_df[i].rid

\* C3: whenever the edited table has more rows than the original text has
\* lines after its header, the text built has one data line per row of the
\* table, and every row's year stands at position 0 of one of them.
C3_AddedRowsAppended ==
    (pc = "idle" /\ shown = "editor" /\ truthy(csv_text_content)) =>
        LET old == split(csv_text_content, LF)
            new == split(csv_content, LF)
            last(ls) == IF ls[Len(ls)] = <<>> THEN Len(ls) - 1 ELSE Len(ls)
        IN  Len(edited_df) > last(old) - 1 =>
                /\ last(new) - 1 = Len(edited_df)
                /\ \A i \in 1..Len(edited_df) : \E j \in 2..last(new) :
                       split(new[j], COMMA)[1] = edited_df[i].year

\* C4: the load of an uploaded file that is one header line and nothing after
\* it ends with the empty-input error, not with a table and no error.
C4_HeaderOnlyIsEmptyInput ==
    (pc = "idle" /\ uploaded_file # None) =>
        LET ls == split(decode(uploaded_file), LF)
        IN  (Len(ls) = 2 /\ ls[1] # <<>> /\ ls[2] = <<>>) => error_info = "EmptyDataError"

C7_EncoderNeverFails ==
    /\ save_result # "UnicodeEncodeError"
    /\ (pc = "idle" /\ shown = "editor") => csv_bytes # None

\* C9: row and line stay in step under add-year.  For an original text whose
\* data lines are in step with the rows parsed from it, every data line the
\* patch writes row i's IDs into carries row i's year at position 0.
C9_RowLineAlignment ==
    (/\ pc = "idle"
     /\ shown = "editor"
     /\ truthy(csv_text_content)
     /\ read_csv(csv_text_content).kind = "ok") =>
        LET old == split(csv_text_content, LF)
            parsed == df_display(read_csv(csv_text_content).data)
            patched(i) == i + 1 <= Len(old) /\ Len(split(old[i + 1], COMMA)) >= 4
            year_at(i) == split(old[i + 1], COMMA)[1]
        IN  (\A i \in 1..Len(parsed) : patched(i) /\ year_at(i) = parsed[i].year) =>
                \A i \in 1..Len(edited_df) : patched(i) => year_at(i) = edited_df[i].year

\* C10: the year a successful add-year stored is among the session table's
\* years after the run that st.rerun() starts, whatever file or Dropbox
\* option is selected.
C10_AddedYearPersists ==
    [][(pc = "rerun" /\ message = "Added") =>
        strip(new_year) \in years_of(session_df')]_vars

====
